---- MODULE Spec2Model ----
(***************************************************************************)
(* Model of raw2lerobot.py: conversion of a tree of raw episode folders   *)
(* into one LeRobotDataset.  The dataset (the sink) is an external        *)
(* collaborator; the model records the calls made on it, in order.        *)
(*                                                                         *)
(* Numbers of the raw records are opaque to the program (it only moves    *)
(* them), so a matrix cell is modelled by a record naming where it came   *)
(* from, and the literals of the source by records holding the literal.   *)
(***************************************************************************)
EXTENDS Integers, Sequences, FiniteSets, TLC

\* ------------------------------------------------------------------ bounds
MaxLen == 2          \* longest trace (rows of a matrix of low_dim.json)
MaxEntries == 3      \* most entries of the raw-data root

\* --------------------------------------------------------------- constants
LowEpisode == 202
HighEpisode == 204
DefaultFps == 25
ImgHeight == 480
ImgWidth == 640
ImgChannels == 3

Lit(s) == [lit |-> s]

LEFT_INIT_POS ==
  << Lit("-0.05664911866188049"), Lit("-0.26874953508377075"),
     Lit("0.5613412857055664"), Lit("1.483367681503296"),
     Lit("-1.1999313831329346"), Lit("-1.3498512506484985"), Lit("0") >>

RIGHT_INIT_POS ==
  << Lit("-0.05664911866188049"), Lit("-0.26874953508377075"),
     Lit("0.5613412857055664"), Lit("-1.483367681503296"),
     Lit("1.1999313831329346"), Lit("1.3498512506484985"), Lit("0") >>

motors ==
  << "left_waist", "left_shoulder", "left_elbow", "left_forearm_roll",
     "left_wrist_angle", "left_wrist_rotate", "left_gripper",
     "right_waist", "right_shoulder", "right_elbow", "right_forearm_roll",
     "right_wrist_angle", "right_wrist_rotate", "right_gripper" >>

CamMarker == [c \in {"cam_high", "cam_left_wrist", "cam_right_wrist"} |->
                CASE c = "cam_high" -> "cam1"
                  [] c = "cam_left_wrist" -> "cam2"
                  [] c = "cam_right_wrist" -> "cam3"]
FrameKeys == { "observation.images.cam_high", "observation.images.cam_left_wrist",
               "observation.images.cam_right_wrist", "observation.state",
               "action", "task" }

Min(a, b) == IF a < b THEN a ELSE b
Max(a, b) == IF a > b THEN a ELSE b

\* ------------------------------------------------------- names and numbers
\* A file name is a sequence of characters.  "sup2" stands for the one
\* character U+00B2 (superscript two): str.isdigit() accepts it, int() does not.
AsciiDigits == { "0", "1", "2", "3", "4", "5", "6", "7", "8", "9" }
OtherDigits == { "sup2" }

DigitVal(ch) ==
  CASE ch = "0" -> 0 [] ch = "1" -> 1 [] ch = "2" -> 2 [] ch = "3" -> 3
    [] ch = "4" -> 4 [] ch = "5" -> 5 [] ch = "6" -> 6 [] ch = "7" -> 7
    [] ch = "8" -> 8 [] ch = "9" -> 9

\* str.isdigit(): non-empty and every character is a digit character.
isdigit(name) ==
  /\ Len(name) > 0
  /\ \A j \in 1..Len(name) : name[j] \in AsciiDigits \cup OtherDigits

\* int(name) raises ValueError unless every character is a decimal digit.
IntRaises(name) == \E j \in 1..Len(name) : name[j] \notin AsciiDigits

RECURSIVE int(_)
int(name) ==
  IF Len(name) = 0 THEN 0
  ELSE 10 * int(SubSeq(name, 1, Len(name) - 1)) + DigitVal(name[Len(name)])

\* -------------------------------------------------------------- discovery
\* Variant of the filter that leaves out f.is_dir().
RECURSIVE InRangeDirs_anyKind(_)
InRangeDirs_anyKind(entries) ==
  IF entries = <<>> THEN <<>>
  ELSE LET f == Head(entries)
           keep == /\ isdigit(f.name)
                   /\ LowEpisode <= int(f.name)
                   /\ int(f.name) <= HighEpisode
       IN  (IF keep THEN <<f>> ELSE <<>>) \o InRangeDirs_anyKind(Tail(entries))

\* The filter of the loop over raw_dir.iterdir(), in iteration order.
RECURSIVE InRangeDirs(_)
InRangeDirs(entries) ==
  IF entries = <<>> THEN <<>>
  ELSE LET f == Head(entries)
           keep == /\ f.is_dir
                   /\ isdigit(f.name)
                   /\ LowEpisode <= int(f.name)
                   /\ int(f.name) <= HighEpisode
       IN  (IF keep THEN <<f>> ELSE <<>>) \o InRangeDirs(Tail(entries))

\* The loop calls int() on every directory whose name passes isdigit().
DiscoveryRaises(entries) ==
  \E j \in 1..Len(entries) :
    entries[j].is_dir /\ isdigit(entries[j].name) /\ IntRaises(entries[j].name)

\* sorted(..., key=lambda x: int(x.name)): a stable sort.
RECURSIVE InsertByKey(_, _)
InsertByKey(f, sortedSeq) ==
  IF sortedSeq = <<>> THEN <<f>>
  ELSE IF int(Head(sortedSeq).name) <= int(f.name)
       THEN <<Head(sortedSeq)>> \o InsertByKey(f, Tail(sortedSeq))
       ELSE <<f>> \o sortedSeq

\* Variant of the sort that keeps the iteration order.
unsorted(s) == s

RECURSIVE sorted(_)
sorted(s) ==
  IF s = <<>> THEN <<>>
  ELSE InsertByKey(s[Len(s)], sorted(SubSeq(s, 1, Len(s) - 1)))

\* ------------------------------------------------------------------ numpy
\* An array is [shape, rows]; a failed operation is [err |-> <exception>].
IsErr(x) == "err" \in DOMAIN x
Raise(e) == [err |-> e]

\* np.array(list of rows): an empty list gives the 1-D shape (0,).
np_array(list) ==
  [shape |-> IF Len(list) = 0 THEN <<0>> ELSE <<Len(list), Len(list[1])>>,
   rows  |-> list]

TrailingDim(a) == a.shape[Len(a.shape)]

\* a[:, lo:hi] with Python's clipping of slice ends; hi = -1 stands for "to the end".
ColSlice(a, lo, hi) ==
  IF Len(a.shape) # 2 THEN Raise("IndexError")
  ELSE LET n    == a.shape[2]
           stop == IF hi < 0 THEN n ELSE Min(hi, n)
           strt == Min(lo, n)
       IN  [shape |-> <<a.shape[1], Max(0, stop - strt)>>,
            rows  |-> [r \in 1..a.shape[1] |-> SubSeq(a.rows[r], strt + 1, stop)]]

\* np.tile(v, (n, 1))
tile(v, n) == [shape |-> <<n, Len(v)>>, rows |-> [r \in 1..n |-> v]]

RECURSIVE JoinRow(_, _)
JoinRow(arrs, r) ==
  IF arrs = <<>> THEN <<>> ELSE Head(arrs).rows[r] \o JoinRow(Tail(arrs), r)

RECURSIVE SumCols(_)
SumCols(arrs) ==
  IF arrs = <<>> THEN 0 ELSE Head(arrs).shape[2] + SumCols(Tail(arrs))

\* np.concatenate(arrs, axis=1): an argument that failed propagates; the arrays
\* must all be 2-D with the same number of rows.
concatenate(arrs) ==
  IF \E j \in 1..Len(arrs) : IsErr(arrs[j])
  THEN arrs[CHOOSE j \in 1..Len(arrs) :
              IsErr(arrs[j]) /\ \A k \in 1..(j - 1) : ~IsErr(arrs[k])]
  ELSE IF \E j \in 1..Len(arrs) : Len(arrs[j].shape) # 2
  THEN Raise("ValueError: concatenate")
  ELSE IF \E j \in 1..Len(arrs) : arrs[j].shape[1] # arrs[1].shape[1]
  THEN Raise("ValueError: concatenate")
  ELSE [shape |-> <<arrs[1].shape[1], SumCols(arrs)>>,
        rows  |-> [r \in 1..arrs[1].shape[1] |-> JoinRow(arrs, r)]]

\* ------------------------------------------------- state/action reconciler
\* process_custom_format; low_dim is the parsed low_dim.json.
\* Variant that takes the length of the observed trace.
ep_len_of_obs(low_dim) == Len(low_dim["observation/arm/joint_position"])

\* Line 86: the episode length is the length of the commanded-joint trace.
ep_len_of(low_dim) == Len(low_dim["action/arm/joint_position"])

\* Variant with the two gripper columns exchanged.
DualArm_swapped(joints, gripper) ==
  concatenate(<< ColSlice(joints, 0, 6), ColSlice(gripper, 1, 2),
                 ColSlice(joints, 6, -1), ColSlice(gripper, 0, 1) >>)

\* Lines 93-98: the dual-arm layout, used for state and for action.
DualArm(joints, gripper) ==
  concatenate(<< ColSlice(joints, 0, 6), ColSlice(gripper, 0, 1),
                 ColSlice(joints, 6, -1), ColSlice(gripper, 1, 2) >>)

\* Variant with the rest pose after the recorded arm.
SingleArm_poseLast(n, joints, gripper) ==
  concatenate(<< joints, gripper, tile(LEFT_INIT_POS, n) >>)

\* Lines 100-105: the single-arm layout, used for state and for action.
SingleArm(n, joints, gripper) ==
  concatenate(<< tile(LEFT_INIT_POS, n), joints, gripper >>)

\* Variant without the final else: every width but 12 takes the single-arm branch.
Reconcile_noElse(low_dim) ==
  LET ep_len         == ep_len_of(low_dim)
      qpos           == np_array(low_dim["observation/arm/joint_position"])
      qaction        == np_array(low_dim["action/arm/joint_position"])
      gripper_pos    == np_array(low_dim["observation/eef/joint_position"])
      gripper_action == np_array(low_dim["action/eef/joint_position"])
      st == IF TrailingDim(qpos) = 12 THEN DualArm(qpos, gripper_pos)
            ELSE SingleArm(ep_len, qpos, gripper_pos)
      ac == IF TrailingDim(qpos) = 12 THEN DualArm(qaction, gripper_action)
            ELSE SingleArm(ep_len, qaction, gripper_action)
  IN  IF IsErr(st) THEN st
      ELSE IF IsErr(ac) THEN ac
      ELSE [state |-> st, action |-> ac]

\* Lines 86-107: the arrays, the choice of the layout by the trailing
\* dimension of qpos, state before action.
Reconcile(low_dim) ==
  LET ep_len         == ep_len_of(low_dim)
      qpos           == np_array(low_dim["observation/arm/joint_position"])
      qaction        == np_array(low_dim["action/arm/joint_position"])
      gripper_pos    == np_array(low_dim["observation/eef/joint_position"])
      gripper_action == np_array(low_dim["action/eef/joint_position"])
      st == IF TrailingDim(qpos) = 12 THEN DualArm(qpos, gripper_pos)
            ELSE SingleArm(ep_len, qpos, gripper_pos)
      ac == IF TrailingDim(qpos) = 12 THEN DualArm(qaction, gripper_action)
            ELSE SingleArm(ep_len, qaction, gripper_action)
  IN  IF TrailingDim(qpos) \notin {6, 12}
      THEN Raise("ValueError: Unexpected qpos dimension.")
      ELSE IF IsErr(st) THEN st
      ELSE IF IsErr(ac) THEN ac
      ELSE [state |-> st, action |-> ac]

\* ------------------------------------------------------- camera frame loader
\* find_match(list, key): the first item that contains key, or None.  An
\* entry name is a sequence of tokens; "key in item" is the substring test.
None == [none |-> TRUE]
IsNone(x) == "none" \in DOMAIN x

Contains(item, key) == \E j \in 1..Len(item) : item[j] = key

RECURSIVE find_match(_, _)
find_match(list, key) ==
  IF list = <<>> THEN None
  ELSE IF Contains(Head(list).name, key) THEN Head(list)
  ELSE find_match(Tail(list), key)

\* cv2.imread(cam_folder / frame_{i:06}.png): None for a missing or
\* undecodable file, else the decoded BGR image.
imread(cam_folder, i) ==
  IF i < Len(cam_folder.png) /\ cam_folder.png[i + 1].status = "ok"
  THEN [shape |-> <<ImgHeight, ImgWidth, ImgChannels>>, px |-> cam_folder.png[i + 1].bgr]
  ELSE None

\* Variant that turns an unread image into a blank one.
cvtColor_lenient(img) ==
  IF IsNone(img) THEN [shape |-> <<ImgHeight, ImgWidth, ImgChannels>>,
                       px |-> << Lit("0"), Lit("0"), Lit("0") >>]
  ELSE [img EXCEPT !.px = << img.px[3], img.px[2], img.px[1] >>]

\* Variant that leaves the channel order as read.
cvtColor_keep(img) ==
  IF IsNone(img) THEN Raise("cv2.error") ELSE img

\* cv2.cvtColor(img, COLOR_BGR2RGB): the channels of every pixel reversed.
cvtColor(img) ==
  IF IsNone(img) THEN Raise("cv2.error")
  ELSE [img EXCEPT !.px = << img.px[3], img.px[2], img.px[1] >>]

\* np.zeros((ep_len, 480, 640, 3)): ep_len zero-filled images.
ZeroImage == [shape |-> <<ImgHeight, ImgWidth, ImgChannels>>,
              px |-> << Lit("0"), Lit("0"), Lit("0") >>]

\* Lines 117-128 for one camera: the images of the episode, or the failure.
LoadCamera(folder, cam_name, ep_len) ==
  LET cam_folder == find_match(folder.listing, CamMarker[cam_name])
  IN  IF ~IsNone(cam_folder) /\ cam_folder.exists
      THEN IF \E i \in 0..(ep_len - 1) : IsErr(cvtColor(imread(cam_folder, i)))
           THEN Raise("cv2.error")
           ELSE [imgs |-> [i \in 1..ep_len |-> cvtColor(imread(cam_folder, i - 1))]]
      ELSE [imgs |-> [i \in 1..ep_len |-> ZeroImage]]

\* ------------------------------------------------------------------ inputs
\* The raw-data root before the run.  d names the recording a value belongs to.
Cell(m, d, r, c) == [m |-> m, d |-> d, r |-> r, c |-> c]

Mat(m, d, rows, cols) ==
  [r \in 1..rows |-> [c \in 1..cols |-> Cell(m, d, r - 1, c - 1)]]

\* low_dim.json with L commanded rows and obsRows observed rows.
LowDim(d, L, obsRows, qc, ac, gc, gac) ==
  [k \in { "observation/arm/joint_position", "action/arm/joint_position",
           "observation/eef/joint_position", "action/eef/joint_position" } |->
     CASE k = "observation/arm/joint_position" -> Mat("qpos", d, obsRows, qc)
       [] k = "action/arm/joint_position"      -> Mat("qaction", d, L, ac)
       [] k = "observation/eef/joint_position" -> Mat("gripper_pos", d, obsRows, gc)
       [] k = "action/eef/joint_position"      -> Mat("gripper_action", d, L, gac)]

\* The file frame_{i:06}.png of a camera folder, holding a BGR image.
Png(d, name, i) ==
  [status |-> "ok",
   bgr |-> << [d |-> d, dir |-> name, i |-> i, ch |-> "B"],
              [d |-> d, dir |-> name, i |-> i, ch |-> "G"],
              [d |-> d, dir |-> name, i |-> i, ch |-> "R"] >>]
BadPng(kind) == [status |-> kind]

\* An entry of an episode folder holding n readable frame files.
CamDir(d, name, n) ==
  [name |-> name, exists |-> TRUE, png |-> [j \in 1..n |-> Png(d, name, j - 1)]]

\* The same with frame file b missing or undecodable.
CamDirBad(d, name, n, b, kind) ==
  [name |-> name, exists |-> TRUE,
   png |-> [j \in 1..n |-> IF j - 1 = b THEN BadPng(kind) ELSE Png(d, name, j - 1)]]

Meta(status, has_fps) == [status |-> status, has_fps |-> has_fps, fps |-> 30]
MetaOk == Meta("ok", TRUE)
Metas == { MetaOk, Meta("ok", FALSE), Meta("missing", FALSE), Meta("invalid", FALSE) }

\* An entry of the raw-data root.
Dir(name, meta, low_dim, listing) ==
  [name |-> name, is_dir |-> TRUE, meta |-> meta, has_low_dim |-> TRUE,
   low_dim |-> low_dim, listing |-> listing]
DirNoLowDim(name, meta) ==
  [name |-> name, is_dir |-> TRUE, meta |-> meta, has_low_dim |-> FALSE,
   low_dim |-> LowDim(0, 0, 0, 0, 0, 0, 0), listing |-> <<>>]
PlainFile(name) ==
  [name |-> name, is_dir |-> FALSE, meta |-> Meta("missing", FALSE),
   has_low_dim |-> FALSE, low_dim |-> LowDim(0, 0, 0, 0, 0, 0, 0), listing |-> <<>>]

AllCams(d, n) ==
  << CamDir(d, <<"cam1">>, n), CamDir(d, <<"cam2">>, n), CamDir(d, <<"cam3">>, n) >>

\* A well-formed dual-arm recording of one frame with no camera folder.
PlainDir(name, d) == Dir(name, MetaOk, LowDim(d, 1, 1, 12, 12, 2, 2), <<>>)

N202 == << "2", "0", "2" >>
N203 == << "2", "0", "3" >>
N204 == << "2", "0", "4" >>

\* (a) Roots for discovery: up to MaxEntries entries with distinct names.
RootPool ==
  { PlainDir(N202, 1), PlainDir(N203, 2), PlainDir(<< "0", "2", "0", "3" >>, 3),
    PlainDir(N204, 4), PlainFile(N204), PlainDir(<< "2", "0", "5" >>, 5),
    PlainDir(<< "2", "0", "a" >>, 6), PlainDir(<< "2", "0", "sup2" >>, 7),
    PlainFile(<< "m", "e", "t", "a" >>) }

RECURSIVE Listings(_)
Listings(n) ==
  IF n = 0 THEN { <<>> }
  ELSE LET shorter == Listings(n - 1)
       IN  shorter \cup
           { Append(s, f) : s \in { t \in shorter : Len(t) = n - 1 },
                            f \in RootPool } 

DistinctNames(s) ==
  \A j, k \in 1..Len(s) : j # k => s[j].name # s[k].name

DiscoveryRoots == { s \in Listings(MaxEntries) : DistinctNames(s) }

\* (b) Roots holding one episode folder, for the assembler: every shape of
\* low_dim.json with one camera folder, and every camera layout with one shape.
QposCols == { 6, 7, 12 }
QactionCols == { 6, 12 }
GripperCols == { 1, 2 }

ShapeFolders ==
  { Dir(N202, MetaOk, LowDim(1, L, obsRows, qc, ac, gc, gac),
        << CamDir(1, <<"cam2">>, L) >>) :
      L \in 0..MaxLen, obsRows \in 0..MaxLen, qc \in QposCols,
      ac \in QactionCols, gc \in GripperCols, gac \in GripperCols }

CamListings(d, L) ==
  { AllCams(d, L),
    AllCams(d, L + 1),
    << CamDir(d, <<"cam3">>, L), CamDir(d, <<"cam1">>, L) >>,
    << CamDir(d, <<"cam1", "_", "cam2">>, L) >>,
    << CamDir(d, <<"x", "cam1">>, L), CamDir(d, <<"cam1">>, L) >>,
    << [CamDir(d, <<"cam1">>, L) EXCEPT !.exists = FALSE], CamDir(d, <<"cam2">>, L) >>,
    << CamDir(d, <<"cam1">>, L - 1), CamDir(d, <<"cam3">>, L) >> }
  \cup
  { [AllCams(d, L) EXCEPT ![j] = CamDirBad(d, AllCams(d, L)[j].name, L, b, kind)] :
      j \in 1..3, b \in 0..(L - 1), kind \in { "missing", "corrupt" } }

CamFolders ==
  UNION { { Dir(N202, MetaOk, LowDim(1, L, L, 12, 12, 2, 2), listing) :
              listing \in CamListings(1, L) } : L \in 1..MaxLen }

MetaFolders == { Dir(N202, m, LowDim(1, 1, 1, 12, 12, 2, 2), <<>>) : m \in Metas }

AssemblerRoots == { <<f>> : f \in ShapeFolders \cup CamFolders \cup MetaFolders }

\* (c) Roots holding the three folders of the range, each one of a few kinds.
RunFolders(name, d) ==
  { Dir(name, MetaOk, LowDim(d, MaxLen, MaxLen, 12, 12, 2, 2), AllCams(d, MaxLen)),
    Dir(name, MetaOk, LowDim(d, 1, 1, 6, 6, 1, 1), <<>>),
    Dir(name, MetaOk, LowDim(d, 1, 1, 7, 12, 2, 2), AllCams(d, 1)),
    Dir(name, MetaOk, LowDim(d, MaxLen, MaxLen, 12, 12, 2, 2),
        << CamDirBad(d, <<"cam1">>, MaxLen, MaxLen - 1, "missing") >>),
    Dir(name, MetaOk, LowDim(d, MaxLen, MaxLen - 1, 12, 12, 2, 2), <<>>),
    DirNoLowDim(name, MetaOk) }

RunRoots ==
  { << f3, f1, f2 >> : f1 \in RunFolders(N202, 1), f2 \in RunFolders(N203, 2),
                       f3 \in RunFolders(N204, 3) }

RawRoots == DiscoveryRoots \cup AssemblerRoots \cup RunRoots

\* ------------------------------------------------------------------- state
VARIABLES
  raw_dir,       \* args.raw_dir: the entries of the root, in iterdir() order
  push_to_hub,   \* args.push_to_hub
  local_dir,     \* args.local_dir: "absent", "stale" (left by an earlier run) or "dataset"
  pc,            \* position of main
  sub_folders,   \* the discovered episode folders
  fps,           \* frame rate read from the first folder's meta.json
  ep,            \* position of the loop over sub_folders (1-based, 0 before it)
  state,         \* process_custom_format: the reconciled state array
  action,        \* process_custom_format: the reconciled action array
  imgs_per_cam,  \* process_custom_format: the images of every camera
  i,             \* process_custom_format: the frame index of the add loop
  calls,         \* the calls made on the dataset, in order
  error          \* the exception that ended the run, "none" if none

vars == << raw_dir, push_to_hub, local_dir, pc, sub_folders, fps, ep,
           state, action, imgs_per_cam, i, calls, error >>

NoArray == [shape |-> <<0>>, rows |-> <<>>]
NoImages == [c \in {} |-> <<>>]

Init ==
  /\ raw_dir \in RawRoots
  /\ push_to_hub \in BOOLEAN
  /\ local_dir \in { "absent", "stale" }
  /\ pc = "discover"
  /\ sub_folders = <<>>
  /\ fps = 0
  /\ ep = 0
  /\ state = NoArray
  /\ action = NoArray
  /\ imgs_per_cam = NoImages
  /\ i = 0
  /\ calls = <<>>
  /\ error = "none"

folder == sub_folders[ep]
ep_len == ep_len_of(folder.low_dim)

Fail(e) ==
  /\ pc' = "failed"
  /\ error' = e

\* main, lines 187-198: scan, filter and sort; return if nothing was found.
Discover ==
  /\ pc = "discover"
  /\ IF DiscoveryRaises(raw_dir)
     THEN /\ Fail("ValueError: invalid literal for int()")
          /\ UNCHANGED sub_folders
     ELSE /\ sub_folders' = sorted(InRangeDirs(raw_dir))
          /\ pc' = IF sub_folders' = <<>> THEN "done" ELSE "read_meta"
          /\ UNCHANGED error
  /\ UNCHANGED << raw_dir, push_to_hub, local_dir, fps, ep, state, action,
                  imgs_per_cam, i, calls >>

\* Variant that clears the output location and creates the dataset before reading meta.json.
ReadMeta_afterCreate ==
  /\ pc = "read_meta"
  /\ local_dir' = "dataset"
  /\ calls' = Append(calls, [op |-> "create", fps |-> DefaultFps])
  /\ LET meta == sub_folders[1].meta
     IN  IF meta.status = "ok"
         THEN /\ fps' = IF meta.has_fps THEN meta.fps ELSE DefaultFps
              /\ pc' = "create"
              /\ UNCHANGED error
         ELSE Fail("FileNotFoundError: meta.json") /\ UNCHANGED fps
  /\ UNCHANGED << raw_dir, push_to_hub, sub_folders, ep, state,
                  action, imgs_per_cam, i >>

\* main, lines 200-204: the frame rate of the first folder's meta.json.
ReadMeta ==
  /\ pc = "read_meta"
  /\ LET meta == sub_folders[1].meta
     IN  CASE meta.status = "missing" ->
                Fail("FileNotFoundError: meta.json") /\ UNCHANGED fps
           [] meta.status = "invalid" ->
                Fail("JSONDecodeError: meta.json") /\ UNCHANGED fps
           [] meta.status = "ok" ->
                /\ fps' = IF meta.has_fps THEN meta.fps ELSE DefaultFps
                /\ pc' = "create"
                /\ UNCHANGED error
  /\ UNCHANGED << raw_dir, push_to_hub, local_dir, sub_folders, ep, state,
                  action, imgs_per_cam, i, calls >>

\* main, lines 206-238: the schema, removal of an existing output directory,
\* LeRobotDataset.create, and entry into the loop over sub_folders.
Create ==
  /\ pc = "create"
  /\ local_dir' = "dataset"
  /\ calls' = Append(calls, [op |-> "create", fps |-> fps, robot_type |-> "airbot",
                             state_shape |-> <<Len(motors)>>,
                             action_shape |-> <<Len(motors)>>,
                             image_shape |-> <<ImgChannels, ImgHeight, ImgWidth>>])
  /\ ep' = 1
  /\ pc' = "reconcile"
  /\ UNCHANGED << raw_dir, push_to_hub, sub_folders, fps, state, action,
                  imgs_per_cam, i, error >>

\* process_custom_format, lines 83-107: load low_dim.json and reconcile it.
LoadLowDim ==
  /\ pc = "reconcile"
  /\ IF ~folder.has_low_dim
     THEN Fail("FileNotFoundError: low_dim.json") /\ UNCHANGED << state, action >>
     ELSE LET r == Reconcile(folder.low_dim)
          IN  IF IsErr(r)
              THEN Fail(r.err) /\ UNCHANGED << state, action >>
              ELSE /\ state' = r.state
                   /\ action' = r.action
                   /\ pc' = "load_images"
                   /\ UNCHANGED error
  /\ UNCHANGED << raw_dir, push_to_hub, local_dir, sub_folders, fps, ep,
                  imgs_per_cam, i, calls >>

\* process_custom_format, lines 109-128: resolve and load every camera.
LoadImages ==
  /\ pc = "load_images"
  /\ IF \E c \in DOMAIN CamMarker : IsErr(LoadCamera(folder, c, ep_len))
     THEN Fail("cv2.error") /\ UNCHANGED << imgs_per_cam, i >>
     ELSE /\ imgs_per_cam' = [c \in DOMAIN CamMarker |-> LoadCamera(folder, c, ep_len).imgs]
          /\ i' = 0
          /\ pc' = "add_frame"
          /\ UNCHANGED error
  /\ UNCHANGED << raw_dir, push_to_hub, local_dir, sub_folders, fps, ep,
                  state, action, calls >>

\* The frame_dict of lines 132-139 for frame index n.
frame_dict(n) ==
  [k \in FrameKeys |->
     CASE k = "observation.images.cam_high"        -> imgs_per_cam["cam_high"][n + 1]
       [] k = "observation.images.cam_left_wrist"  -> imgs_per_cam["cam_left_wrist"][n + 1]
       [] k = "observation.images.cam_right_wrist" -> imgs_per_cam["cam_right_wrist"][n + 1]
       [] k = "observation.state"                  -> state.rows[n + 1]
       [] k = "action"                             -> action.rows[n + 1]
       [] k = "task"                               -> ""]

\* process_custom_format, lines 131-140: one turn of the add loop.  folder and
\* index record the loop positions at the call; the frame itself carries neither.
AddFrame ==
  /\ pc = "add_frame"
  /\ i < ep_len
  /\ IF i >= state.shape[1]
     THEN Fail("IndexError") /\ UNCHANGED << i, calls >>
     ELSE /\ calls' = Append(calls, [op |-> "add_frame", folder |-> ep, index |-> i,
                                     frame |-> frame_dict(i)])
          /\ i' = i + 1
          /\ UNCHANGED << pc, error >>
  /\ UNCHANGED << raw_dir, push_to_hub, local_dir, sub_folders, fps, ep,
                  state, action, imgs_per_cam >>

\* process_custom_format, line 142, and the next turn of main's loop (241-242).
SaveEpisode ==
  /\ pc = "add_frame"
  /\ i = ep_len
  /\ calls' = Append(calls, [op |-> "save_episode", folder |-> ep])
  /\ state' = NoArray
  /\ action' = NoArray
  /\ imgs_per_cam' = NoImages
  /\ i' = 0
  /\ IF ep < Len(sub_folders)
     THEN ep' = ep + 1 /\ pc' = "reconcile"
     ELSE ep' = ep /\ pc' = "push"
  /\ UNCHANGED << raw_dir, push_to_hub, local_dir, sub_folders, fps, error >>

\* main, lines 245-252.
PushToHub ==
  /\ pc = "push"
  /\ push_to_hub
  /\ calls' = Append(calls, [op |-> "push_to_hub", tags |-> <<"LeRobot", "batch_processed">>,
                             private |-> FALSE, push_videos |-> TRUE,
                             license |-> "apache-2.0"])
  /\ pc' = "done"
  /\ UNCHANGED << raw_dir, push_to_hub, local_dir, sub_folders, fps, ep, state,
                  action, imgs_per_cam, i, error >>

Return ==
  /\ pc = "push"
  /\ ~push_to_hub
  /\ pc' = "done"
  /\ UNCHANGED << raw_dir, push_to_hub, local_dir, sub_folders, fps, ep, state,
                  action, imgs_per_cam, i, calls, error >>

Next ==
  \/ Discover
  \/ ReadMeta
  \/ Create
  \/ LoadLowDim
  \/ LoadImages
  \/ AddFrame
  \/ SaveEpisode
  \/ PushToHub
  \/ Return

Spec == Init /\ [][Next]_vars

\* ================================================================= claims
\* What the claims speak of, read off the inputs and the recorded calls.
AddCalls  == { j \in 1..Len(calls) : calls[j].op = "add_frame" }
SaveCalls == { j \in 1..Len(calls) : calls[j].op = "save_episode" }
PushCalls == { j \in 1..Len(calls) : calls[j].op = "push_to_hub" }

ObsJoints(f)   == f.low_dim["observation/arm/joint_position"]
CmdJoints(f)   == f.low_dim["action/arm/joint_position"]
ObsGripper(f)  == f.low_dim["observation/eef/joint_position"]
CmdGripper(f)  == f.low_dim["action/eef/joint_position"]
TraceLen(f)    == Len(CmdJoints(f))
ObsColumns(f)  == IF Len(ObsJoints(f)) = 0 THEN 0 ELSE Len(ObsJoints(f)[1])

\* ---- C1
\* C1: every save_episode call comes right after exactly L add_frame calls of
\* that one episode with frame indices 0, 1, ..., L-1 in this order, the call
\* before them being create or the previous save_episode, L being the length
\* of the episode's commanded-joint trace; no episode is saved twice.  It
\* holds in every state of every run, the aborted ones included.
C1_SaveClosesWholeEpisode ==
  \A j \in SaveCalls :
    LET e == calls[j].folder
        L == TraceLen(sub_folders[e])
    IN  /\ j - L - 1 >= 1
        /\ calls[j - L - 1].op \in { "create", "save_episode" }
        /\ \A n \in 0..(L - 1) :
             /\ calls[j - L + n].op = "add_frame"
             /\ calls[j - L + n].folder = e
             /\ calls[j - L + n].index = n
        /\ \A k \in SaveCalls : k # j => calls[k].folder # e

\* A run that closed one episode and then aborted after writing part of the next.
C1_Witness ==
  /\ pc = "failed"
  /\ SaveCalls # {}
  /\ calls[Len(calls)].op = "add_frame"

\* ---- C2
RECURSIVE EpisodeCalls(_, _)
EpisodeCalls(e, n) ==
  IF n = 0 THEN <<>> ELSE Append(EpisodeCalls(e, n - 1), << "add_frame", e, n - 1 >>)

RECURSIVE ExpectedCalls(_)
ExpectedCalls(k) ==
  IF k = 0 THEN << << "create", 0, 0 >> >>
  ELSE ExpectedCalls(k - 1) \o EpisodeCalls(k, TraceLen(sub_folders[k]))
         \o << << "save_episode", k, 0 >> >>

CallShape(c) ==
  << c.op,
     IF c.op \in { "add_frame", "save_episode" } THEN c.folder ELSE 0,
     IF c.op = "add_frame" THEN c.index ELSE 0 >>

\* C2: a run over a non-empty discovery that ends without error has made
\* exactly these calls: create; for every discovered folder, in the order of
\* the list (numeric values never decreasing), its L add_frame calls in
\* ascending frame index and then one save_episode; and last one push_to_hub
\* if and only if publishing is enabled.  In every state of every run the
\* calls are in ascending folder order and nothing follows a push_to_hub.
C2_CallSequence ==
  /\ (pc = "done" /\ sub_folders # <<>>) =>
       /\ [j \in 1..Len(calls) |-> CallShape(calls[j])]
            = ExpectedCalls(Len(sub_folders))
                \o (IF push_to_hub THEN << << "push_to_hub", 0, 0 >> >> ELSE <<>>)
       /\ Cardinality(SaveCalls) = Len(sub_folders)
       /\ \A k \in 1..(Len(sub_folders) - 1) :
            int(sub_folders[k].name) <= int(sub_folders[k + 1].name)
  /\ \A j, k \in AddCalls \cup SaveCalls :
       j < k => /\ calls[j].folder <= calls[k].folder
                /\ int(sub_folders[calls[j].folder].name)
                     <= int(sub_folders[calls[k].folder].name)
  /\ \A j \in PushCalls : j = Len(calls) /\ pc = "done"
  /\ \A j \in 1..Len(calls) : calls[j].op = "create" <=> j = 1

\* A finished run over three folders, published.
C2_Witness ==
  /\ pc = "done"
  /\ Len(sub_folders) = 3
  /\ Cardinality(SaveCalls) = 3
  /\ PushCalls # {}
  /\ raw_dir[1].name = N204

\* ---- C3
UnsupportedLayout(f) == f.has_low_dim /\ ObsColumns(f) \notin { 6, 12 }

\* C3: for an episode whose observed joint-position matrix has a trailing
\* dimension other than 6 or 12, no add_frame and no save_episode call is ever
\* made; once the episode was reached the run has failed with the
\* unsupported-layout error, no later episode is processed, nothing was
\* published, and every earlier episode of the run is closed in the sink.
C3_UnsupportedLayoutAborts ==
  \A e \in 1..Len(sub_folders) :
    UnsupportedLayout(sub_folders[e]) =>
      /\ \A j \in AddCalls \cup SaveCalls : calls[j].folder # e
      /\ ep <= e
      /\ (ep = e /\ pc # "reconcile") =>
           /\ pc = "failed"
           /\ error = "ValueError: Unexpected qpos dimension."
           /\ PushCalls = {}
           /\ { calls[j].folder : j \in SaveCalls } = 1..(e - 1)

\* The second folder has an unsupported layout; the first one stays closed.
C3_Witness ==
  /\ pc = "failed"
  /\ ep = 2
  /\ UnsupportedLayout(sub_folders[2])
  /\ ObsColumns(sub_folders[2]) = 7
  /\ Cardinality(SaveCalls) = 1

\* ---- C4
\* The entry a marker resolves to: the first entry whose name contains it.
Resolved(f, marker) ==
  { j \in 1..Len(f.listing) :
      /\ \E p \in 1..Len(f.listing[j].name) : f.listing[j].name[p] = marker
      /\ \A k \in 1..(j - 1) :
           \A p \in 1..Len(f.listing[k].name) : f.listing[k].name[p] # marker }

Markers == { "cam1", "cam2", "cam3" }

BadFrame(f) ==
  /\ f.has_low_dim
  /\ \E m \in Markers : \E j \in Resolved(f, m) :
       /\ f.listing[j].exists
       /\ \E n \in 0..(TraceLen(f) - 1) :
            \/ n >= Len(f.listing[j].png)
            \/ f.listing[j].png[n + 1].status # "ok"

\* C4: for an episode with an available camera whose frame file of some index
\* below L is missing or undecodable, no add_frame and no save_episode call is
\* ever made; no later episode is processed; when the run stopped in that
\* episode after the reconciliation succeeded, it stopped with the image-read
\* error, and nothing was published.
C4_ImageReadAborts ==
  \A e \in 1..Len(sub_folders) :
    BadFrame(sub_folders[e]) =>
      /\ \A j \in AddCalls \cup SaveCalls : calls[j].folder # e
      /\ ep <= e
      /\ ep = e => /\ pc \in { "reconcile", "load_images", "failed" }
                   /\ PushCalls = {}
      /\ (ep = e /\ pc = "failed" /\ state # NoArray) => error = "cv2.error"
      /\ (ep = e /\ pc = "failed") => calls[Len(calls)].op \in { "create", "save_episode" }

\* The second folder lacks a frame file; the run stopped there.
C4_Witness ==
  /\ pc = "failed"
  /\ error = "cv2.error"
  /\ ep = 2
  /\ BadFrame(sub_folders[2])
  /\ Cardinality(SaveCalls) = 1

\* ---- C5
StateOf(j)  == calls[j].frame["observation.state"]
ActionOf(j) == calls[j].frame["action"]
FolderOf(j) == sub_folders[calls[j].folder]

\* v is joints[0..5], gripper[0], joints[6..], gripper[1] (the last where the
\* gripper row has a second value).
DualArrangement(v, joints, gripper) ==
  /\ Len(v) = Len(joints) + (IF Len(gripper) >= 2 THEN 2 ELSE 1)
  /\ \A k \in 1..6 : v[k] = joints[k]
  /\ v[7] = gripper[1]
  /\ \A k \in 7..Len(joints) : v[k + 1] = joints[k]
  /\ Len(gripper) >= 2 => v[Len(joints) + 2] = gripper[2]

SingleArrangement(v, pose, joints, gripper) ==
  /\ Len(v) = 7 + Len(joints) + Len(gripper)
  /\ \A k \in 1..7 : v[k] = pose[k]
  /\ \A k \in 1..Len(joints) : v[7 + k] = joints[k]
  /\ \A k \in 1..Len(gripper) : v[7 + Len(joints) + k] = gripper[k]

DecimalDigits == << "0", "1", "2", "3", "4", "5", "6", "7", "8", "9" >>
IsDecimal(name) ==
  Len(name) > 0 /\ \A p \in 1..Len(name) : \E d \in 1..10 : DecimalDigits[d] = name[p]

RECURSIVE Horner(_, _, _)
Horner(name, p, acc) ==
  IF p > Len(name) THEN acc
  ELSE Horner(name, p + 1,
              10 * acc + (CHOOSE d \in 0..9 : DecimalDigits[d + 1] = name[p]))

Qualifies(f) ==
  /\ f.is_dir
  /\ IsDecimal(f.name)
  /\ Horner(f.name, 1, 0) \in LowEpisode..HighEpisode

Qualifying == { raw_dir[j] : j \in { k \in 1..Len(raw_dir) : Qualifies(raw_dir[k]) } }

\* A directory whose name str.isdigit() accepts and int() rejects.
OddDigitDir ==
  \E j \in 1..Len(raw_dir) :
    /\ raw_dir[j].is_dir
    /\ Len(raw_dir[j].name) > 0
    /\ \A p \in 1..Len(raw_dir[j].name) :
         raw_dir[j].name[p] = "sup2" \/ \E d \in 1..10 : DecimalDigits[d] = raw_dir[j].name[p]
    /\ \E p \in 1..Len(raw_dir[j].name) : raw_dir[j].name[p] = "sup2"

Discovered == { sub_folders[k] : k \in 1..Len(sub_folders) }

C8_NothingBeforeMetadata ==
  (sub_folders = <<>> \/ sub_folders[1].meta.status # "ok") =>
    /\ calls = <<>>
    /\ local_dir \in { "absent", "stale" }
    /\ pc \in { "discover", "read_meta", "done", "failed" }

\* The run failed on meta.json with an output directory of an earlier run in place.
C8_Witness ==
  /\ pc = "failed"
  /\ sub_folders # <<>>
  /\ sub_folders[1].meta.status \in { "missing", "invalid" }
  /\ local_dir = "stale"
  /\ calls = <<>>

\* ---- C9
KeyOfMarker(m) ==
  CASE m = "cam1" -> "observation.images.cam_high"
    [] m = "cam2" -> "observation.images.cam_left_wrist"
    [] m = "cam3" -> "observation.images.cam_right_wrist"

\* C9: for every camera and every add_frame call of frame index i: with no
\* entry of the episode folder matching the camera's marker the image is the
\* zero-filled 480x640x3 placeholder; with the camera folder in place the
\* image is the content of that folder's file of index i, its channels in
\* RGB order.
C9_Images ==
  \A j \in AddCalls : \A m \in Markers :
    LET img == calls[j].frame[KeyOfMarker(m)]
        f   == FolderOf(j)
        n   == calls[j].index
    IN  /\ Resolved(f, m) = {} =>
              /\ img.shape = << 480, 640, 3 >>
              /\ \A ch \in 1..3 : img.px[ch] = [lit |-> "0"]
        /\ \A r \in Resolved(f, m) :
             f.listing[r].exists =>
               LET file == f.listing[r].png[n + 1]
               IN  /\ img.px = << file.bgr[3], file.bgr[2], file.bgr[1] >>
                   /\ \A ch \in 1..3 : /\ img.px[ch].i = n
                                       /\ img.px[ch].dir = f.listing[r].name
                   /\ << img.px[1].ch, img.px[2].ch, img.px[3].ch >> = << "R", "G", "B" >>

\* The second frame of an episode with the high camera in place and the left
\* wrist camera absent was added.
C9_Witness ==
  \E j \in AddCalls :
    /\ calls[j].index = 1
    /\ Resolved(FolderOf(j), "cam1") # {}
    /\ Resolved(FolderOf(j), "cam2") = {}
    /\ calls[j].frame["observation.images.cam_high"].px[1].ch = "R"

\* ---- C10
\* C10: every add_frame call carries the six fields, a state of exactly 14
\* components, an action of exactly 14 components and the empty task label,
\* whatever the column counts of the commanded-joint and gripper matrices.
C10_FrameSchema ==
  \A j \in AddCalls :
    /\ DOMAIN calls[j].frame = FrameKeys
    /\ Len(StateOf(j)) = 14
    /\ Len(ActionOf(j)) = 14
    /\ calls[j].frame["task"] = ""

====
